---- MODULE Spec2Model ----
(***************************************************************************)
(* Verification model of the kool-skool multi-tenant core:                 *)
(*   - the Tenant Provisioner, supabase/functions/create-tenant/index.ts   *)
(*   - the Session/Tenant Binder, AuthProvider in scripts/setup-database.ts*)
(* Strings are sequences of character codes, so that toLowerCase, trim,    *)
(* the e-mail regex and ILIKE are computed and not assumed.                *)
(***************************************************************************)
EXTENDS Integers, Sequences, FiniteSets, TLC

\* ------------------------------------------------------------- bounds
\* Number of provisioning invocations that may run concurrently.
NumCalls == 2
\* Number of AuthProvider operations that may be in flight at once.
MaxOps == 2
\* Number of operations, over a run, that may call fetchUserData.
MaxBinds == 2
\* Number of changes other clients make to the store over a run.
MaxStoreChanges == 1
MaxQueries == 3
MaxRecords == 2
\* Size of one page of listUsers(), scaled down from the provider's default.
PerPage == 2

\* ------------------------------------------------- program constants
\* index.ts:89  requestData.password.length < 8
MinPasswordLength == 8

\* --------------------------------------------------------- strings
\* String.prototype.toLowerCase on the ASCII range.
ToLower(s) == [i \in 1..Len(s) |-> IF s[i] \in 65..90 THEN s[i] + 32 ELSE s[i]]

\* The characters \s of a JavaScript regex / trim() that the inputs use.
IsSpace(ch) == ch \in {9, 10, 13, 32}

RECURSIVE TrimLeft(_)
TrimLeft(s) == IF s # <<>> /\ IsSpace(Head(s)) THEN TrimLeft(Tail(s)) ELSE s

RECURSIVE TrimRight(_)
TrimRight(s) ==
    IF s # <<>> /\ IsSpace(s[Len(s)]) THEN TrimRight(SubSeq(s, 1, Len(s) - 1)) ELSE s

\* String.prototype.trim
Trim(s) == TrimRight(TrimLeft(s))

\* A variant of the e-mail test that accepts every string.
EmailRegexLenient(s) == TRUE

\* /^[^\s@]+@[^\s@]+\.[^\s@]+$/.test(s): no white space, exactly one "@" (64)
\* that is not first, and a "." (46) after it that is neither the character
\* right after the "@" nor the last one.
EmailRegexTest(s) ==
    /\ \A i \in 1..Len(s) : ~IsSpace(s[i])
    /\ Cardinality({i \in 1..Len(s) : s[i] = 64}) = 1
    /\ \E p \in 2..Len(s) :
          /\ s[p] = 64
          /\ \E q \in (p + 2)..(Len(s) - 1) : s[q] = 46

\* SQL LIKE on lower-cased operands: "%" (37) matches any run of characters,
\* "_" (95) any one character.
RECURSIVE LikeMatch(_, _)
LikeMatch(s, p) ==
    IF p = <<>> THEN s = <<>>
    ELSE IF Head(p) = 37
         THEN \E k \in 0..Len(s) : LikeMatch(SubSeq(s, k + 1, Len(s)), Tail(p))
    ELSE IF s = <<>> THEN FALSE
    ELSE /\ (Head(p) = 95 \/ Head(p) = Head(s))
         /\ LikeMatch(Tail(s), Tail(p))

\* PostgREST .ilike(column, pattern)
Ilike(value, pattern) == LikeMatch(ToLower(value), ToLower(pattern))

\* ------------------------------------------------------ request inputs
Pw(n) == [i \in 1..n |-> 112]

Req(e, p, n) == [email |-> e, password |-> p, schoolName |-> n]

\* "a@b.c", "A@b.c", "d@b.c", "ab"
EmailA == <<97, 64, 98, 46, 99>>
EmailAUpper == <<65, 64, 98, 46, 99>>
EmailD == <<100, 64, 98, 46, 99>>
EmailBad == <<97, 98>>
\* "Li", " li ", "Ok"
NameLi == <<76, 105>>
NameLiLowerPadded == <<32, 108, 105, 32>>
NameOk == <<79, 107>>

\* The requests an invocation may receive: valid ones that collide on the
\* e-mail or on the school name only by letter case, and invalid ones.
Requests ==
    { Req(EmailA, Pw(8), NameLi),
      Req(EmailAUpper, Pw(8), NameOk),
      Req(EmailD, Pw(9), NameLiLowerPadded),
      Req(EmailA, Pw(7), NameLi),
      Req(EmailBad, Pw(8), NameLi),
      Req(<<>>, Pw(8), NameLi),
      Req(EmailA, <<>>, NameLi),
      Req(EmailA, Pw(8), <<>>) }

\* Outcome of one awaited call on the store or the identity provider: it
\* resolves with data, resolves with {error}, or rejects (throws).
Outcomes == {"ok", "err", "throw"}

\* The text of an underlying cause (a thrown error's message).
Cause == "cause"

Calls == 1..NumCalls

VARIABLES
    schools,      \* table schools: set of rows
    users,        \* identity provider: set of identities
    profiles,     \* table profiles: set of rows
    terms,        \* table academic_terms: set of rows
    nextSchoolId, \* next generated schools.id
    nextUserId,   \* next generated auth user id
    inv,          \* per invocation of the handler: its position and locals
    authSession,  \* identity provider: the client's current session, {} if none
    session,      \* AuthProvider state: session, {} for null
    user,         \* AuthProvider state: user (a profile row), {} for null
    school,       \* AuthProvider state: school (a school row), {} for null
    role,         \* AuthProvider state: role, "" for null
    tenantId,     \* AuthProvider state: tenantId, 0 for null
    isLoading,    \* AuthProvider state: isLoading
    op,           \* the AuthProvider's asynchronous operations in flight
    bindSeq,      \* number of fetchUserData calls started so far
    boundTok,     \* start number of the fetchUserData whose result is shown, 0 if none
    newestTok,    \* highest start number of a fetchUserData that wrote the bound
                  \* fields since they were last cleared
    storeChanges, \* changes made to the store by other clients so far
    recs,         \* a tenant-owned table written through createRecord,
                  \* updateRecord and deleteRecord, with the call last made
    roleRows,     \* tables teachers and parents: set of rows
    hook          \* one mounted useTenantQuery: what its latest render captured,
                  \* its state, and its queries awaiting an answer

provVars == <<terms, nextSchoolId, nextUserId, inv>>

clientVars == <<session, user, school, role, tenantId, isLoading>>

boundVars == <<user, school, role, tenantId>>

ghostVars == <<bindSeq, boundTok, newestTok, storeChanges>>

binderVars == <<authSession, session, user, school, role, tenantId, isLoading, op,
                bindSeq, boundTok, newestTok, storeChanges, recs, roleRows, hook>>

vars == <<schools, users, profiles, terms, nextSchoolId, nextUserId, inv,
          authSession, session, user, school, role, tenantId, isLoading, op,
          bindSeq, boundTok, newestTok, storeChanges, recs, roleRows, hook>>

\* ================================================================
\* Tenant Provisioner
\* ================================================================

\* The handler before a request arrived. tenantId/userId = 0 is undefined.
IdleInv ==
    [ pc |-> "idle", req |-> Req(<<>>, <<>>, <<>>), tenantId |-> 0, userId |-> 0,
      status |-> 0, error |-> "", caught |-> "",
      checkFailed |-> FALSE, failedStep |-> 0, failedHow |-> "", log |-> <<>>,
      follows |-> FALSE, killedAt |-> "" ]

\* new Response(JSON.stringify({success:false, error}), {status})
Respond(c, st, msg) ==
    inv' = [inv EXCEPT ![c].pc = "done", ![c].status = st, ![c].error = msg]

\* The outer catch: status 500 with error.message of whatever was thrown.
OuterCatch(rec, msg) == [rec EXCEPT !.pc = "done", !.status = 500, !.error = msg]

\* An operation slot: kind "none" is a free slot. uid, tid, suid, arg, prof and
\* claim are the operation's locals; tok numbers its fetchUserData call; bind
\* tells how that call ended ("" not yet, "ok", or why it returned false);
\* error and how are what the operation returned and the outcome of the
\* awaited call that decided it.
NoOp ==
    [ kind |-> "none", pc |-> "", uid |-> 0, tid |-> 0, suid |-> 0, arg |-> 0,
      prof |-> {}, tok |-> 0, claim |-> FALSE, bind |-> "", error |-> "", how |-> "" ]

\* ------------------------------------------------------ record helpers
\* The table before any call: no rows, the next generated id, no call made.
NoRecords == [ rows |-> {}, nextId |-> 1, last |-> [fn |-> "", tenantId |-> 0] ]

\* ------------------------------------------------------ useTenantQuery
\* The filters argument of the hook: none, one on another column, one on
\* tenant_id itself. A filter is a pair <<column, value>>.
Filters == { {}, {<<"is_active", 1>>}, {<<"tenant_id", 2>>} }

\* supabase.from(table).select(select).eq('tenant_id', tenantId) followed by
\* one .eq per filter (lines 55-69): the query's equality filters.
Query(tid, filters) == {<<"tenant_id", tid>>} \cup filters

\* The hook after its first render and effect under an AuthProvider that is
\* still loading: fetchData returned at its guard. tenantId, authLoading and
\* filters are the values the latest render's fetchData closes over; data is
\* the query whose rows are shown; issued counts the queries sent and last is
\* the latest of them.
HookAtMount ==
    [ tenantId |-> 0, authLoading |-> TRUE, filters |-> {},
      loading |-> FALSE, error |-> FALSE, data |-> {}, inFlight |-> {},
      issued |-> 0, last |-> {} ]

\* if (authLoading || !tenantId) (line 46)
FetchGuard(h) == h.authLoading \/ h.tenantId = 0

\* fetchData() up to its await (lines 45-76), for the closure h.
FetchData(h) ==
    IF FetchGuard(h) THEN [h EXCEPT !.loading = FALSE]
    ELSE [h EXCEPT !.loading = TRUE, !.error = FALSE,
                   !.inFlight = @ \cup {Query(h.tenantId, h.filters)},
                   !.issued = @ + 1,
                   !.last = Query(h.tenantId, h.filters)]

\* useState's initial values (lines 185-191) with nothing in flight.
BinderAtRest ==
    /\ authSession = {}
    /\ session = {}
    /\ user = {}
    /\ school = {}
    /\ role = ""
    /\ tenantId = 0
    /\ isLoading = TRUE
    /\ op = [o \in 1..MaxOps |-> NoOp]
    /\ bindSeq = 0
    /\ boundTok = 0
    /\ newestTok = 0
    /\ storeChanges = 0
    /\ recs = NoRecords
    /\ roleRows = {}
    /\ hook = HookAtMount

InitProv ==
    /\ BinderAtRest
    /\ schools = {}
    /\ users = {}
    /\ profiles = {}
    /\ terms = {}
    /\ nextSchoolId = 1
    /\ nextUserId = 1
    /\ inv = [c \in Calls |-> IdleInv]

\* Request r arrives at c after another call with the same request has
\* returned 201.
FollowsSuccess(c, r) ==
    \E d \in Calls \ {c} : inv[d].pc = "done" /\ inv[d].status = 201 /\ inv[d].req = r

\* serve(async (req) => ...): a request arrives.
Receive(c) ==
    /\ inv[c].pc = "idle"
    /\ \E r \in Requests :
         inv' = [inv EXCEPT ![c].pc = "validate", ![c].req = r,
                            ![c].follows = FollowsSuccess(c, r)]
    /\ UNCHANGED <<schools, users, profiles, terms, nextSchoolId, nextUserId>>
    /\ UNCHANGED binderVars

\* Input validation, before any call on the store.
Validate(c) ==
    /\ inv[c].pc = "validate"
    /\ LET r == inv[c].req IN
       IF r.email = <<>> \/ r.password = <<>> \/ r.schoolName = <<>>
       THEN Respond(c, 400, "Email, password, and school name are required")
       ELSE IF ~EmailRegexTest(r.email)
       THEN Respond(c, 400, "Invalid email format")
       ELSE IF Len(r.password) < MinPasswordLength
       THEN Respond(c, 400, "Password must be at least 8 characters long")
       ELSE inv' = [inv EXCEPT ![c].pc = "listUsers"]
    /\ UNCHANGED <<schools, users, profiles, terms, nextSchoolId, nextUserId>>
    /\ UNCHANGED binderVars

\* auth.admin.listUsers() is called without page or perPage: it answers one
\* page of at most PerPage identities, all of them when the provider holds no
\* more than a page. Which identities a page holds is the provider's choice.
ListedUsers ==
    IF Cardinality(users) <= PerPage THEN {users}
    ELSE {pg \in SUBSET users : Cardinality(pg) = PerPage}

\* A variant of the comparison without toLowerCase().
EmailExistsExact(listed, email) == \E u \in listed : u.email = email

\* existingUser?.users.some(user => user.email === email.toLowerCase())
EmailExists(listed, email) == \E u \in listed : u.email = ToLower(email)

CheckEmail(c) ==
    /\ inv[c].pc = "listUsers"
    /\ \E out \in Outcomes :
         CASE out = "ok" ->
                \E listed \in ListedUsers :
                    IF EmailExists(listed, inv[c].req.email)
                    THEN Respond(c, 409, "Email address is already registered")
                    ELSE inv' = [inv EXCEPT ![c].pc = "checkSchool"]
           [] out = "err" ->
                inv' = [inv EXCEPT ![c].pc = "checkSchool", ![c].checkFailed = TRUE]
           [] out = "throw" ->
                inv' = [inv EXCEPT ![c] = [OuterCatch(@, Cause) EXCEPT !.checkFailed = TRUE]]
    /\ UNCHANGED <<schools, users, profiles, terms, nextSchoolId, nextUserId>>
    /\ UNCHANGED binderVars

\* .from('schools').select('id').ilike('name', name.trim()).single():
\* data is the row when exactly one row matches, null otherwise.
ExistingSchool(name) ==
    LET m == {s \in schools : Ilike(s.name, Trim(name))}
    IN IF Cardinality(m) = 1 THEN m ELSE {}

CheckSchool(c) ==
    /\ inv[c].pc = "checkSchool"
    /\ \E out \in Outcomes :
         CASE out = "ok" ->
                IF ExistingSchool(inv[c].req.schoolName) # {}
                THEN Respond(c, 409, "A school with this name already exists")
                ELSE inv' = [inv EXCEPT ![c].pc = "step1"]
           [] out = "err" ->
                inv' = [inv EXCEPT ![c].pc = "step1", ![c].checkFailed = TRUE]
           [] out = "throw" ->
                inv' = [inv EXCEPT ![c] = [OuterCatch(@, Cause) EXCEPT !.checkFailed = TRUE]]
    /\ UNCHANGED <<schools, users, profiles, terms, nextSchoolId, nextUserId>>
    /\ UNCHANGED binderVars

\* A row of table schools as step 1 inserts it (lines 147-156).
SchoolRow(id, r) ==
    [ id |-> id, name |-> Trim(r.schoolName), subscription_status |-> "active" ]

\* A variant of the identity without user_metadata.
UserRowNoClaims(id, r, tid) ==
    [ id |-> id, email |-> ToLower(r.email), tenant_id |-> 0, role |-> "" ]

\* An identity as step 2 creates it (lines 168-178).
UserRow(id, r, tid) ==
    [ id |-> id, email |-> ToLower(r.email), tenant_id |-> tid, role |-> "admin" ]

\* A row of table profiles as step 3 inserts it (lines 192-200).
ProfileRow(uid, r, tid) ==
    [ id |-> uid, tenant_id |-> tid, email |-> ToLower(r.email), role |-> "admin",
      first_name |-> "", is_active |-> TRUE, last_login |-> 0, created_at |-> 0 ]

\* A row of table academic_terms as step 4 inserts it (lines 216-223).
TermRow(tid) == [ tenant_id |-> tid, is_current |-> TRUE ]

\* The first step of 1..4 that failed, and how: the call returned an error
\* ("err"), rejected ("throw"), or the provider refused a taken e-mail ("taken").
NoteFailure(rec, step, how) ==
    IF rec.failedStep = 0
    THEN [rec EXCEPT !.failedStep = step, !.failedHow = how]
    ELSE rec

\* One compensating delete was issued; what became of it.
NoteDelete(rec, what, out) == [rec EXCEPT !.log = Append(@, <<what, out>>)]

\* A variant of the inner catch that goes for the school first and leaves the
\* identity alone.
InnerCatchSchoolFirst(rec, msg) ==
    IF rec.tenantId # 0 THEN [rec EXCEPT !.pc = "catchSchool", !.caught = msg]
    ELSE OuterCatch([rec EXCEPT !.caught = msg], msg)

\* An error reaches the inner catch (lines 245-266): delete the identity if
\* userId is set, then the school if tenantId is set, then rethrow to the
\* outer catch, which answers 500 with the error's message.
InnerCatch(rec, msg) ==
    IF rec.userId # 0 THEN [rec EXCEPT !.pc = "catchUser", !.caught = msg]
    ELSE IF rec.tenantId # 0 THEN [rec EXCEPT !.pc = "catchSchool", !.caught = msg]
    ELSE OuterCatch([rec EXCEPT !.caught = msg], msg)

\* Step 1: insert the school row.
Step1(c) ==
    /\ inv[c].pc = "step1"
    /\ \E out \in Outcomes :
         CASE out = "ok" ->
                /\ schools' = schools \cup {SchoolRow(nextSchoolId, inv[c].req)}
                /\ nextSchoolId' = nextSchoolId + 1
                /\ inv' = [inv EXCEPT ![c].tenantId = nextSchoolId, ![c].pc = "step2"]
           [] out = "err" ->
                /\ inv' = [inv EXCEPT ![c] =
                              InnerCatch(NoteFailure(@, 1, out), "Failed to create school")]
                /\ UNCHANGED <<schools, nextSchoolId>>
           [] out = "throw" ->
                /\ inv' = [inv EXCEPT ![c] = InnerCatch(NoteFailure(@, 1, out), Cause)]
                /\ UNCHANGED <<schools, nextSchoolId>>
    /\ UNCHANGED <<users, profiles, terms, nextUserId>>
    /\ UNCHANGED binderVars

\* The identity provider refuses a second identity with the same e-mail.
EmailTaken(email) == \E u \in users : u.email = ToLower(email)

\* Where the handler goes when createUser returned an error (lines 180-185):
\* the inline delete of the school.
AfterUserError(rec, how) == [NoteFailure(rec, 2, how) EXCEPT !.pc = "cleanup2"]

\* Step 2: create the admin identity with the tenant claims.
Step2(c) ==
    /\ inv[c].pc = "step2"
    /\ \E out \in Outcomes :
         CASE out = "ok" /\ ~EmailTaken(inv[c].req.email) ->
                /\ users' = users \cup {UserRow(nextUserId, inv[c].req, inv[c].tenantId)}
                /\ nextUserId' = nextUserId + 1
                /\ inv' = [inv EXCEPT ![c].userId = nextUserId, ![c].pc = "step3"]
           [] out = "err" \/ (out = "ok" /\ EmailTaken(inv[c].req.email)) ->
                /\ inv' = [inv EXCEPT ![c] =
                              AfterUserError(@, IF out = "ok" THEN "taken" ELSE out)]
                /\ UNCHANGED <<users, nextUserId>>
           [] out = "throw" ->
                /\ inv' = [inv EXCEPT ![c] = InnerCatch(NoteFailure(@, 2, out), Cause)]
                /\ UNCHANGED <<users, nextUserId>>
    /\ UNCHANGED <<schools, profiles, terms, nextSchoolId>>
    /\ UNCHANGED binderVars

\* A variant of the delete that also takes the schools created earlier.
DeleteSchoolUpTo(tid) == {s \in schools : s.id > tid}

\* .from('schools').delete().eq('id', tenantId)
DeleteSchool(tid) == {s \in schools : s.id # tid}

\* A variant of the delete that also takes the identities created earlier.
DeleteUserUpTo(uid) == {u \in users : u.id > uid}

\* auth.admin.deleteUser(userId)
DeleteUser(uid) == {u \in users : u.id # uid}

\* Line 183-184: delete the school, result unchecked, then throw.
Cleanup2(c) ==
    /\ inv[c].pc = "cleanup2"
    /\ \E out \in Outcomes :
         /\ schools' = IF out = "ok" THEN DeleteSchool(inv[c].tenantId) ELSE schools
         /\ inv' = [inv EXCEPT ![c] =
                       InnerCatch(NoteDelete(@, "school", out),
                                  IF out = "throw" THEN Cause
                                  ELSE "Failed to create admin user")]
    /\ UNCHANGED <<users, profiles, terms, nextSchoolId, nextUserId>>
    /\ UNCHANGED binderVars

\* Where the handler goes when the profile insert returned an error
\* (lines 202-208): the inline delete of the identity, then of the school.
AfterProfileError(rec) == [NoteFailure(rec, 3, "err") EXCEPT !.pc = "cleanup3user"]

\* Step 3: insert the admin profile row.
Step3(c) ==
    /\ inv[c].pc = "step3"
    /\ \E out \in Outcomes :
         CASE out = "ok" ->
                /\ profiles' = profiles \cup
                                 {ProfileRow(inv[c].userId, inv[c].req, inv[c].tenantId)}
                /\ inv' = [inv EXCEPT ![c].pc = "step4"]
           [] out = "err" ->
                /\ inv' = [inv EXCEPT ![c] = AfterProfileError(@)]
                /\ UNCHANGED profiles
           [] out = "throw" ->
                /\ inv' = [inv EXCEPT ![c] = InnerCatch(NoteFailure(@, 3, out), Cause)]
                /\ UNCHANGED profiles
    /\ UNCHANGED <<schools, users, terms, nextSchoolId, nextUserId>>
    /\ UNCHANGED binderVars

\* Line 205: delete the identity, result unchecked.
Cleanup3User(c) ==
    /\ inv[c].pc = "cleanup3user"
    /\ \E out \in Outcomes :
         /\ users' = IF out = "ok" THEN DeleteUser(inv[c].userId) ELSE users
         /\ inv' = [inv EXCEPT ![c] =
                       IF out = "throw"
                       THEN InnerCatch(NoteDelete(@, "user", out), Cause)
                       ELSE [NoteDelete(@, "user", out) EXCEPT !.pc = "cleanup3school"]]
    /\ UNCHANGED <<schools, profiles, terms, nextSchoolId, nextUserId>>
    /\ UNCHANGED binderVars

\* Lines 206-207: delete the school, result unchecked, then throw.
Cleanup3School(c) ==
    /\ inv[c].pc = "cleanup3school"
    /\ \E out \in Outcomes :
         /\ schools' = IF out = "ok" THEN DeleteSchool(inv[c].tenantId) ELSE schools
         /\ inv' = [inv EXCEPT ![c] =
                       InnerCatch(NoteDelete(@, "school", out),
                                  IF out = "throw" THEN Cause
                                  ELSE "Failed to create admin profile")]
    /\ UNCHANGED <<users, profiles, terms, nextSchoolId, nextUserId>>
    /\ UNCHANGED binderVars

\* What the handler does when the academic-term insert rejects: the await
\* sits inside the try block, so the error reaches the inner catch.
AfterTermThrow(rec) == InnerCatch(NoteFailure(rec, 4, "throw"), Cause)

\* Step 4: insert the default academic term, then answer 201.
Step4(c) ==
    /\ inv[c].pc = "step4"
    /\ \E out \in Outcomes :
         CASE out = "ok" ->
                /\ terms' = terms \cup {TermRow(inv[c].tenantId)}
                /\ Respond(c, 201, "")
           [] out = "err" ->
                /\ inv' = [inv EXCEPT ![c] =
                              [NoteFailure(@, 4, out) EXCEPT !.pc = "done", !.status = 201]]
                /\ UNCHANGED terms
           [] out = "throw" ->
                /\ inv' = [inv EXCEPT ![c] = AfterTermThrow(@)]
                /\ UNCHANGED terms
    /\ UNCHANGED <<schools, users, profiles, nextSchoolId, nextUserId>>
    /\ UNCHANGED binderVars

\* Lines 249-255: if (userId) try { deleteUser } catch { log }.
CatchUser(c) ==
    /\ inv[c].pc = "catchUser"
    /\ \E out \in Outcomes :
         /\ users' = IF out = "ok" THEN DeleteUser(inv[c].userId) ELSE users
         /\ inv' = [inv EXCEPT ![c] =
                       IF @.tenantId # 0
                       THEN [NoteDelete(@, "user", out) EXCEPT !.pc = "catchSchool"]
                       ELSE OuterCatch(NoteDelete(@, "user", out), inv[c].caught)]
    /\ UNCHANGED <<schools, profiles, terms, nextSchoolId, nextUserId>>
    /\ UNCHANGED binderVars

\* Lines 257-265: if (tenantId) try { delete school } catch { log }; throw error.
\* Lines 268-281: the outer catch answers 500 with error.message.
CatchSchool(c) ==
    /\ inv[c].pc = "catchSchool"
    /\ \E out \in Outcomes :
         /\ schools' = IF out = "ok" THEN DeleteSchool(inv[c].tenantId) ELSE schools
         /\ inv' = [inv EXCEPT ![c] =
                       OuterCatch(NoteDelete(@, "school", out), inv[c].caught)]
    /\ UNCHANGED <<users, profiles, terms, nextSchoolId, nextUserId>>
    /\ UNCHANGED binderVars

NextProv ==
    \E c \in Calls :
        \/ Receive(c)
        \/ Validate(c)
        \/ CheckEmail(c)
        \/ CheckSchool(c)
        \/ Step1(c)
        \/ Step2(c)
        \/ Cleanup2(c)
        \/ Step3(c)
        \/ Cleanup3User(c)
        \/ Cleanup3School(c)
        \/ Step4(c)
        \/ CatchUser(c)
        \/ CatchSchool(c)

SpecProv == InitProv /\ [][NextProv]_vars

\* The process running the handler is ended while the handler is between two
\* awaited calls or waits for one: the handler takes no further step and sends
\* no response. killedAt is the step whose call had not been issued.
Kill(c) ==
    /\ inv[c].pc \notin {"idle", "done", "killed"}
    /\ inv' = [inv EXCEPT ![c].pc = "killed", ![c].killedAt = inv[c].pc]
    /\ UNCHANGED <<schools, users, profiles, terms, nextSchoolId, nextUserId>>
    /\ UNCHANGED binderVars

NextProvKill ==
    \/ NextProv
    \/ \E c \in Calls : Kill(c)

SpecProvKill == InitProv /\ [][NextProvKill]_vars

\* "x@b.c", "y@b.c"
EmailX == <<120, 64, 98, 46, 99>>
EmailY == <<121, 64, 98, 46, 99>>

\* A store that earlier invocations have filled: two schools whose names differ
\* by letter case only (two invocations that both passed the name check before
\* either inserted), and more identities than one page of listUsers() holds.
SeededSchools ==
    { SchoolRow(1, Req(EmailA, Pw(8), NameLi)),
      SchoolRow(2, Req(EmailX, Pw(8), NameLiLowerPadded)) }

SeededUsers ==
    { UserRow(1, Req(EmailA, Pw(8), NameLi), 1),
      UserRow(2, Req(EmailX, Pw(8), NameLiLowerPadded), 2),
      UserRow(3, Req(EmailY, Pw(8), NameLi), 1) }

SeededProfiles ==
    { ProfileRow(1, Req(EmailA, Pw(8), NameLi), 1),
      ProfileRow(2, Req(EmailX, Pw(8), NameLiLowerPadded), 2),
      ProfileRow(3, Req(EmailY, Pw(8), NameLi), 1) }

InitProvSeeded ==
    /\ BinderAtRest
    /\ schools = SeededSchools
    /\ users = SeededUsers
    /\ profiles = SeededProfiles
    /\ terms = {TermRow(1), TermRow(2)}
    /\ nextSchoolId = 3
    /\ nextUserId = 4
    /\ inv = [c \in Calls |-> IdleInv]

SpecProvSeeded == InitProvSeeded /\ [][NextProv]_vars

\* ================================================================
\* Session/Tenant Binder (AuthProvider)
\* ================================================================

Ops == 1..MaxOps

Tenants == {1, 2}

\* The one identity the client signs in as.
Uid == 1

\* The partial updates a caller may pass to updateProfile.
UpdateInputs ==
    << [first_name |-> "X"],
       [first_name |-> "X", id |-> 2, tenant_id |-> 2, created_at |-> 9] >>

\* The session the identity provider issues for identity u: its id and the
\* user_metadata claims tenant_id (0 if the claim is missing) and role.
SessionOf(u) == [ uid |-> u.id, tenant_id |-> u.tenant_id, role |-> u.role ]

\* session?.user?.id, 0 when undefined.
SessionUid(ses) == IF ses = {} THEN 0 ELSE (CHOOSE x \in ses : TRUE).uid

\* The profile row of another identity of school 1.
OtherProfile ==
    [ id |-> Uid + 1, tenant_id |-> 1, email |-> EmailD, role |-> "teacher",
      first_name |-> "", is_active |-> TRUE, last_login |-> 0, created_at |-> 0 ]

\* On process start: two active schools, the identity with or without its
\* active profile in school 1, another identity's profile, nothing provisioning; the identity's claims may
\* lack tenant_id and a session may be persisted.
InitBinder ==
    /\ schools = { [id |-> 1, name |-> NameLi, subscription_status |-> "active"],
                   [id |-> 2, name |-> NameOk, subscription_status |-> "active"] }
    /\ \E t \in {0, 1} :
         users = { [id |-> Uid, email |-> EmailA, tenant_id |-> t, role |-> "teacher"] }
    /\ \E own \in { {}, { [ id |-> Uid, tenant_id |-> 1, email |-> EmailA,
                             role |-> "teacher", first_name |-> "", is_active |-> TRUE,
                             last_login |-> 0, created_at |-> 0 ] } } :
         profiles = own \cup {OtherProfile}
    /\ terms = {}
    /\ nextSchoolId = 3
    /\ nextUserId = 2
    /\ inv = [c \in Calls |-> IdleInv]
    /\ authSession \in {{}} \cup {{SessionOf(u)} : u \in users}
    /\ session = {}
    /\ user = {}
    /\ school = {}
    /\ role = ""
    /\ tenantId = 0
    /\ isLoading = TRUE
    \* useEffect (line 523): getSession() is in flight.
    /\ op = [o \in Ops |-> IF o = 1 THEN [NoOp EXCEPT !.kind = "start", !.pc = "getSession"]
                          ELSE NoOp]
    /\ bindSeq = 0
    /\ boundTok = 0
    /\ newestTok = 0
    /\ storeChanges = 0
    /\ recs = NoRecords
    /\ roleRows = {}
    /\ hook = HookAtMount

\* No operation is in flight (a slot is free or holds a returned operation).
Idle == \A o \in Ops : op[o].kind = "none" \/ op[o].pc = "returned"

\* The slot a newly called operation takes.
FreeSlot(o) == op[o].kind = "none" /\ \A q \in Ops : q < o => op[q].kind # "none"

\* Operations in flight that have not reached their fetchUserData yet.
Unstarted ==
    {o \in Ops : op[o].pc \in {"getSession", "signInCall", "updateCall", "verify", "updateUser"}}

\* One more operation that runs fetchUserData may be called.
MayBind == bindSeq + Cardinality(Unstarted) < MaxBinds

\* The operation returns to its caller with this error ("" for none).
Returned(rec, err, out) == [rec EXCEPT !.pc = "returned", !.error = err, !.how = out]

\* fetchUserData(userId) up to its first await (lines 194-204):
\* setIsLoading(true) and the profile query is issued.
BindStart(rec, uid) ==
    [rec EXCEPT !.pc = "fetchProfile", !.uid = uid, !.tok = bindSeq + 1, !.prof = {}]

\* A variant of the profile query without the is_active filter.
ActiveProfilesAnyStatus(uid) == {p \in profiles : p.id = uid}

\* .from('profiles').select('*').eq('id', userId).eq('is_active', true)
ActiveProfiles(uid) == {p \in profiles : p.id = uid /\ p.is_active}

\* A variant of the school query without the subscription_status filter.
ActiveSchoolsAnyStatus(tid) == {s \in schools : s.id = tid}

\* .from('schools').select('*').eq('id', tid).eq('subscription_status', 'active')
ActiveSchools(tid) == {s \in schools : s.id = tid /\ s.subscription_status = "active"}

\* .single(): the row when the call resolved without error and exactly one row
\* matched, null (here {}) otherwise.
Single(rows, out) == IF out = "ok" /\ Cardinality(rows) = 1 THEN rows ELSE {}

\* What the caller of fetchUserData returns to its own caller (signIn lines
\* 412-416, switchTenant lines 510-514, updateProfile line 470).
ErrorAfterFetch(kind, ok) ==
    IF ok THEN ""
    ELSE IF kind = "signIn" THEN "Failed to load user data"
    ELSE IF kind = "switch" THEN "Failed to load tenant data"
    ELSE ""

\* Where the caller goes once fetchUserData returned: only the
\* onAuthStateChange callback, with a tenant claim and a failed fetch, still
\* awaits something (supabase.auth.signOut(), line 550).
AfterFetch(rec, ok, why, out) ==
    LET r == [rec EXCEPT !.bind = IF ok THEN "ok" ELSE why] IN
    IF rec.kind = "authChange" /\ rec.claim /\ ~ok
    THEN [r EXCEPT !.pc = "forceSignOut"]
    ELSE Returned(r, ErrorAfterFetch(rec.kind, ok), out)

\* fetchUserData returns false (lines 206-209, 212-215, 225-228, 231-234):
\* the bound fields are left as they are, the finally block (line 252) runs,
\* then the caller's continuation.
FetchFails(o, why, out) ==
    /\ isLoading' = FALSE
    /\ op' = [op EXCEPT ![o] = AfterFetch(@, FALSE, why, out)]
    /\ UNCHANGED <<boundVars, boundTok, newestTok>>

\* The profile query resolves (lines 199-214).
FetchProfile(o) ==
    /\ op[o].pc = "fetchProfile"
    /\ \E out \in Outcomes :
         LET data == Single(ActiveProfiles(op[o].uid), out) IN
         IF data # {}
         THEN /\ op' = [op EXCEPT ![o].pc = "fetchSchool", ![o].prof = data]
              /\ UNCHANGED <<isLoading, boundVars, boundTok, newestTok>>
         ELSE FetchFails(o, IF out = "ok" THEN "profile" ELSE out, out)
    /\ UNCHANGED <<schools, users, profiles, provVars, recs, roleRows, hook, authSession, session,
                   bindSeq, storeChanges>>

\* A variant of the role written that does not come from the profile.
BoundRoleConstant(prof) == "admin"

\* profileData.role and profileData.tenant_id of the fetched profile.
BoundRole(prof) == (CHOOSE p \in prof : TRUE).role

BoundTenantId(prof) == (CHOOSE p \in prof : TRUE).tenant_id

\* The school query resolves (lines 217-238); on success the four bound fields
\* are written and the last_login update is issued.
FetchSchool(o) ==
    /\ op[o].pc = "fetchSchool"
    /\ \E out \in Outcomes :
         LET data == Single(ActiveSchools(BoundTenantId(op[o].prof)), out) IN
         IF data # {}
         THEN /\ user' = op[o].prof
              /\ school' = data
              /\ role' = BoundRole(op[o].prof)
              /\ tenantId' = BoundTenantId(op[o].prof)
              /\ boundTok' = op[o].tok
              /\ newestTok' = IF op[o].tok > newestTok THEN op[o].tok ELSE newestTok
              /\ op' = [op EXCEPT ![o].pc = "lastLogin"]
              /\ UNCHANGED isLoading
         ELSE FetchFails(o, IF out = "ok" THEN "school" ELSE out, out)
    /\ UNCHANGED <<schools, users, profiles, provVars, recs, roleRows, hook, authSession, session,
                   bindSeq, storeChanges>>

\* .update({last_login}).eq('id', userId).eq('tenant_id', profile.tenant_id)
WithLastLogin(uid, tid) ==
    { IF p.id = uid /\ p.tenant_id = tid THEN [p EXCEPT !.last_login = 1] ELSE p
        : p \in profiles }

\* The last_login update resolves (lines 241-253): its error is not looked
\* at, a rejection lands in the catch block, which returns false.
LastLogin(o) ==
    /\ op[o].pc = "lastLogin"
    /\ \E out \in Outcomes :
         /\ profiles' = IF out = "ok"
                        THEN WithLastLogin(op[o].uid, BoundTenantId(op[o].prof))
                        ELSE profiles
         /\ op' = [op EXCEPT ![o] = AfterFetch(@, out # "throw", "lastLogin", out)]
    /\ isLoading' = FALSE
    /\ UNCHANGED <<schools, users, provVars, recs, roleRows, hook, authSession, session, boundVars,
                   bindSeq, boundTok, newestTok, storeChanges>>

\* The caller of an operation has taken its result.
Collect(o) ==
    /\ op[o].pc = "returned"
    /\ op' = [op EXCEPT ![o] = NoOp]
    /\ UNCHANGED <<schools, users, profiles, provVars, recs, roleRows, hook, authSession, clientVars,
                   bindSeq, boundTok, newestTok, storeChanges>>

\* The onAuthStateChange callback's branch for no session (lines 538, 556-563),
\* which runs to its end without awaiting anything.
SignedOutEvent ==
    /\ session' = {}
    /\ user' = {}
    /\ school' = {}
    /\ role' = ""
    /\ tenantId' = 0
    /\ isLoading' = FALSE
    /\ boundTok' = 0
    /\ newestTok' = 0

\* useEffect: getSession() resolves (lines 523-530).
GetSession(o) ==
    /\ op[o].kind = "start" /\ op[o].pc = "getSession"
    /\ \E out \in Outcomes :
         CASE out = "ok" /\ authSession # {} ->
                /\ session' = authSession
                /\ op' = [op EXCEPT ![o] = BindStart(@, SessionUid(authSession))]
                /\ bindSeq' = bindSeq + 1
                /\ isLoading' = TRUE
           [] out = "err" \/ (out = "ok" /\ authSession = {}) ->
                /\ session' = {}
                /\ op' = [op EXCEPT ![o] = Returned(@, "", out)]
                /\ isLoading' = FALSE
                /\ UNCHANGED bindSeq
           [] out = "throw" ->
                /\ op' = [op EXCEPT ![o] = Returned(@, "", out)]
                /\ UNCHANGED <<session, isLoading, bindSeq>>
    /\ UNCHANGED <<schools, users, profiles, provVars, recs, roleRows, hook, authSession, boundVars,
                   boundTok, newestTok, storeChanges>>

\* signIn is called (lines 393-399): setIsLoading(true), signInWithPassword issued.
CallSignIn(o) ==
    /\ FreeSlot(o) /\ MayBind
    /\ op' = [op EXCEPT ![o] = [NoOp EXCEPT !.kind = "signIn", !.pc = "signInCall"]]
    /\ isLoading' = TRUE
    /\ UNCHANGED <<schools, users, profiles, provVars, recs, roleRows, hook, authSession, session, boundVars,
                   bindSeq, boundTok, newestTok, storeChanges>>

\* signInWithPassword resolves (lines 401-410).
SignInResponse(o) ==
    /\ op[o].kind = "signIn" /\ op[o].pc = "signInCall"
    /\ \E out \in Outcomes :
         CASE out = "ok" ->
                /\ authSession' = {SessionOf(u) : u \in {x \in users : x.id = Uid}}
                /\ session' = authSession'
                /\ op' = [op EXCEPT ![o] = BindStart(@, Uid)]
                /\ bindSeq' = bindSeq + 1
                /\ UNCHANGED isLoading
           [] OTHER ->
                /\ op' = [op EXCEPT ![o] =
                             Returned(@, IF out = "err" THEN Cause
                                         ELSE "An unexpected error occurred", out)]
                /\ isLoading' = FALSE
                /\ UNCHANGED <<authSession, session, bindSeq>>
    /\ UNCHANGED <<schools, users, profiles, provVars, recs, roleRows, hook, boundVars,
                   boundTok, newestTok, storeChanges>>

\* signOut is called (lines 425-427): supabase.auth.signOut() issued.
CallSignOut(o) ==
    /\ FreeSlot(o)
    /\ op' = [op EXCEPT ![o] = [NoOp EXCEPT !.kind = "signOut", !.pc = "signOutCall"]]
    /\ UNCHANGED <<schools, users, profiles, provVars, recs, roleRows, hook, authSession, clientVars, ghostVars>>

\* A variant of signOut that hands a failed revocation to its caller.
SignOutErrorSurfaced(out) == IF out = "ok" THEN "" ELSE Cause

\* What signOut hands to its caller (lines 425-445): it returns void on every
\* path, the revocation's error or exception is only logged.
SignOutError(out) == ""

\* supabase.auth.signOut() resolves (lines 429-444). When the provider revokes
\* the session it notifies the subscriber with no session before resolving.
SignOutResponse(o) ==
    /\ op[o].kind = "signOut" /\ op[o].pc = "signOutCall"
    /\ \E out \in Outcomes :
         /\ IF out = "ok"
            THEN authSession' = {} /\ SignedOutEvent
            ELSE UNCHANGED <<authSession, clientVars, boundTok, newestTok>>
         /\ op' = [op EXCEPT ![o] = Returned(@, SignOutError(out), out)]
    /\ UNCHANGED <<schools, users, profiles, provVars, recs, roleRows, hook, bindSeq, storeChanges>>

\* A variant of the destructuring that strips nothing.
AllowedUpdatesUnstripped(updates) == updates

\* const { id, tenant_id, created_at, ...allowedUpdates } = updates (line 454)
AllowedUpdates(updates) ==
    [k \in DOMAIN updates \ {"id", "tenant_id", "created_at"} |-> updates[k]]

\* .from('profiles').update(allowed).eq('id', uid).eq('tenant_id', tid)
UpdateProfiles(allowed, uid, tid) ==
    { IF p.id = uid /\ p.tenant_id = tid
      THEN [k \in DOMAIN p |-> IF k \in DOMAIN allowed THEN allowed[k] ELSE p[k]]
      ELSE p : p \in profiles }

\* updateProfile is called (lines 449-460): without a bound user it returns
\* at once, else the update is issued.
CallUpdateProfile(o) ==
    /\ FreeSlot(o) /\ MayBind
    /\ IF user = {} \/ tenantId = 0
       THEN op' = [op EXCEPT ![o] =
                      Returned([NoOp EXCEPT !.kind = "update"], "No authenticated user",
                               "guard")]
       ELSE \E i \in 1..Len(UpdateInputs) :
              op' = [op EXCEPT ![o] =
                        [NoOp EXCEPT !.kind = "update", !.pc = "updateCall",
                                     !.uid = (CHOOSE p \in user : TRUE).id,
                                     !.tid = tenantId, !.suid = SessionUid(session),
                                     !.arg = i]]
    /\ UNCHANGED <<schools, users, profiles, provVars, recs, roleRows, hook, authSession, clientVars,
                   bindSeq, boundTok, newestTok, storeChanges>>

\* A variant of the error paths that reports success.
UpdateRejectedSilently(rec, out) == Returned(rec, "", out)

\* The update returned {error} (lines 462-465: error.message) or rejected
\* (lines 471-474).
UpdateRejected(rec, out) ==
    Returned(rec, IF out = "err" THEN Cause ELSE "An unexpected error occurred", out)

\* The update resolves (lines 462-470); refreshUserData (lines 256-260) runs
\* fetchUserData when the session seen by this call has a user.
UpdateResponse(o) ==
    /\ op[o].kind = "update" /\ op[o].pc = "updateCall"
    /\ \E out \in Outcomes :
         CASE out = "ok" ->
                /\ profiles' = UpdateProfiles(AllowedUpdates(UpdateInputs[op[o].arg]),
                                              op[o].uid, op[o].tid)
                /\ IF op[o].suid # 0
                   THEN /\ op' = [op EXCEPT ![o] = BindStart(@, op[o].suid)]
                        /\ bindSeq' = bindSeq + 1
                        /\ isLoading' = TRUE
                   ELSE /\ op' = [op EXCEPT ![o] = Returned(@, "", out)]
                        /\ UNCHANGED <<bindSeq, isLoading>>
           [] OTHER ->
                /\ op' = [op EXCEPT ![o] = UpdateRejected(@, out)]
                /\ UNCHANGED <<profiles, bindSeq, isLoading>>
    /\ UNCHANGED <<schools, users, provVars, recs, roleRows, hook, authSession, session, boundVars,
                   boundTok, newestTok, storeChanges>>

\* switchTenant(newTenantId) is called (lines 479-489): without a session it
\* returns at once, else the profile lookup for (session.user.id,
\* newTenantId) is issued.
\* tid keeps the tenantId in scope when the call was made.
CallSwitchTenant(o) ==
    /\ FreeSlot(o) /\ MayBind
    /\ \E nt \in Tenants :
         op' = [op EXCEPT ![o] =
                   IF session = {}
                   THEN Returned([NoOp EXCEPT !.kind = "switch", !.arg = nt],
                                 "No authenticated user", "guard")
                   ELSE [NoOp EXCEPT !.kind = "switch", !.pc = "verify",
                                     !.uid = SessionUid(session), !.arg = nt,
                                     !.tid = tenantId]]
    /\ UNCHANGED <<schools, users, profiles, provVars, recs, roleRows, hook, authSession, clientVars,
                   bindSeq, boundTok, newestTok, storeChanges>>

\* A variant of the tenant lookup without the tenant_id filter.
ProfilesInAnyTenant(uid, nt) == {p \in profiles : p.id = uid}

\* .from('profiles').select('*').eq('id', uid).eq('tenant_id', newTenantId)
ProfilesIn(uid, nt) == {p \in profiles : p.id = uid /\ p.tenant_id = nt}

\* What switchTenant does with the lookup's answer (lines 491-501): data is
\* the verified profile, {} when profileError || !profileData; out = "throw"
\* is the lookup rejecting (lines 515-518).
SwitchVerified(rec, data, out) ==
    IF data # {} THEN [rec EXCEPT !.pc = "updateUser", !.prof = data]
    ELSE Returned(rec, IF out = "throw" THEN "An unexpected error occurred"
                       ELSE "Access denied to this tenant", out)

\* The profile lookup resolves (lines 484-501).
SwitchVerify(o) ==
    /\ op[o].kind = "switch" /\ op[o].pc = "verify"
    /\ \E out \in Outcomes :
         op' = [op EXCEPT ![o] =
                   SwitchVerified(@, Single(ProfilesIn(op[o].uid, op[o].arg), out), out)]
    /\ UNCHANGED <<schools, users, profiles, provVars, recs, roleRows, hook, authSession, clientVars,
                   bindSeq, boundTok, newestTok, storeChanges>>

\* auth.updateUser({data: {tenant_id, role}}): the identity's claims.
WithClaims(us, uid, nt, r) ==
    { IF u.id = uid THEN [u EXCEPT !.tenant_id = nt, !.role = r] ELSE u : u \in us }

\* updateUser resolves (lines 496-508). The provider refuses it when the
\* client holds no session any more.
SwitchUpdateUser(o) ==
    /\ op[o].kind = "switch" /\ op[o].pc = "updateUser"
    /\ \E out \in Outcomes :
         CASE out = "ok" /\ authSession # {} ->
                /\ users' = WithClaims(users, op[o].uid, op[o].arg, BoundRole(op[o].prof))
                /\ authSession' = {SessionOf(u) : u \in {x \in users' : x.id = op[o].uid}}
                /\ op' = [op EXCEPT ![o] = BindStart(@, op[o].uid)]
                /\ bindSeq' = bindSeq + 1
                /\ isLoading' = TRUE
           [] OTHER ->
                /\ op' = [op EXCEPT ![o] =
                             Returned(@, IF out = "throw" THEN "An unexpected error occurred"
                                         ELSE Cause, out)]
                /\ UNCHANGED <<users, authSession, bindSeq, isLoading>>
    /\ UNCHANGED <<schools, profiles, provVars, recs, roleRows, hook, session, boundVars,
                   boundTok, newestTok, storeChanges>>

\* refreshUserData is called (lines 256-260).
CallRefresh(o) ==
    /\ FreeSlot(o) /\ MayBind
    /\ session # {}
    /\ op' = [op EXCEPT ![o] = BindStart([NoOp EXCEPT !.kind = "refresh"],
                                         SessionUid(session))]
    /\ bindSeq' = bindSeq + 1
    /\ isLoading' = TRUE
    /\ UNCHANGED <<schools, users, profiles, provVars, recs, roleRows, hook, authSession, session, boundVars,
                   boundTok, newestTok, storeChanges>>

\* The identity provider notifies the subscriber with its live session (sign-in,
\* token refresh, user update): lines 535-555 up to the first await.
AuthEvent(o) ==
    /\ FreeSlot(o) /\ MayBind
    /\ authSession # {}
    /\ session' = authSession
    /\ op' = [op EXCEPT ![o] =
                 BindStart([NoOp EXCEPT !.kind = "authChange",
                                        !.claim = \E x \in authSession : x.tenant_id # 0],
                           SessionUid(authSession))]
    /\ bindSeq' = bindSeq + 1
    /\ isLoading' = TRUE
    /\ UNCHANGED <<schools, users, profiles, provVars, recs, roleRows, hook, authSession, boundVars,
                   boundTok, newestTok, storeChanges>>

\* The session ends outside this client's control (revoked, expired): the
\* provider notifies the subscriber with no session.
ExternalSignOut ==
    /\ authSession # {}
    /\ authSession' = {}
    /\ SignedOutEvent
    /\ UNCHANGED <<schools, users, profiles, provVars, recs, roleRows, hook, op, bindSeq, storeChanges>>

\* What the callback does when the signOut of line 550 has resolved with
\* outcome out: the result is not looked at, the callback ends.
AfterForcedSignOut(rec, out) == Returned(rec, "", out)

\* supabase.auth.signOut() of line 550 resolves. When the provider revokes the
\* session it notifies the subscriber with no session before resolving.
ForceSignOut(o) ==
    /\ op[o].kind = "authChange" /\ op[o].pc = "forceSignOut"
    /\ \E out \in Outcomes :
         /\ IF out = "ok"
            THEN authSession' = {} /\ SignedOutEvent
            ELSE UNCHANGED <<authSession, clientVars, boundTok, newestTok>>
         /\ op' = [op EXCEPT ![o] = AfterForcedSignOut(@, out)]
    /\ UNCHANGED <<schools, users, profiles, provVars, recs, roleRows, hook, bindSeq, storeChanges>>

\* Another client (an administrator) deactivates the identity's profile.
DeactivateProfile ==
    /\ storeChanges < MaxStoreChanges
    /\ \E p \in profiles :
         /\ p.id = Uid /\ p.is_active
         /\ profiles' = (profiles \ {p}) \cup {[p EXCEPT !.is_active = FALSE]}
    /\ storeChanges' = storeChanges + 1
    /\ UNCHANGED <<schools, users, provVars, recs, roleRows, hook, authSession, clientVars, op,
                   bindSeq, boundTok, newestTok>>

\* Another client moves the identity's profile to another school.
MoveProfile ==
    /\ storeChanges < MaxStoreChanges
    /\ \E p \in {q \in profiles : q.id = Uid} : \E t \in Tenants \ {p.tenant_id} :
         profiles' = (profiles \ {p}) \cup {[p EXCEPT !.tenant_id = t]}
    /\ storeChanges' = storeChanges + 1
    /\ UNCHANGED <<schools, users, provVars, recs, roleRows, hook, authSession, clientVars, op,
                   bindSeq, boundTok, newestTok>>

\* A school's subscription is suspended.
SuspendSchool ==
    /\ storeChanges < MaxStoreChanges
    /\ \E s \in schools :
         /\ s.subscription_status = "active"
         /\ schools' = (schools \ {s}) \cup {[s EXCEPT !.subscription_status = "suspended"]}
    /\ storeChanges' = storeChanges + 1
    /\ UNCHANGED <<users, profiles, provVars, recs, roleRows, hook, authSession, clientVars, op,
                   bindSeq, boundTok, newestTok>>

NextBinder ==
    \/ \E o \in Ops :
        \/ GetSession(o)
        \/ FetchProfile(o)
        \/ FetchSchool(o)
        \/ LastLogin(o)
        \/ Collect(o)
        \/ CallSignIn(o)
        \/ SignInResponse(o)
        \/ CallSignOut(o)
        \/ SignOutResponse(o)
        \/ CallUpdateProfile(o)
        \/ UpdateResponse(o)
        \/ CallSwitchTenant(o)
        \/ SwitchVerify(o)
        \/ SwitchUpdateUser(o)
        \/ CallRefresh(o)
        \/ AuthEvent(o)
        \/ ForceSignOut(o)
    \/ ExternalSignOut
    \/ DeactivateProfile
    \/ MoveProfile
    \/ SuspendSchool

SpecBinder == InitBinder /\ [][NextBinder]_vars

\* ================================================================
\* Properties of the Tenant Provisioner
\* ================================================================

Done(c) == inv[c].pc = "done"

\* The school / identity / profile this call created is in the store.
TenantRemains(c) == inv[c].tenantId # 0 /\ \E s \in schools : s.id = inv[c].tenantId
IdentityRemains(c) == inv[c].userId # 0 /\ \E u \in users : u.id = inv[c].userId
ProfileRemains(c) ==
    \E p \in profiles : p.id = inv[c].userId /\ p.tenant_id = inv[c].tenantId

\* C1: a call whose checks answered and in which step 2 (identity creation) or step 3 (profile insert)
\* failed has, once it returned, left no school and no identity it created
\* in the store, and it reports failure.
C1_AtomicOnStep2Or3Failure ==
    \A c \in Calls :
        Done(c) /\ ~inv[c].checkFailed /\ inv[c].failedStep \in {2, 3}
        => /\ inv[c].status = 500
           /\ ~TenantRemains(c)
           /\ ~IdentityRemains(c)

\* C2: a call whose checks and steps 1-3 succeeded and whose academic-term insert (step 4)
\* failed, by a returned error or by a thrown exception, returns 201 with its
\* school, identity and profile still in the store and no compensating delete
\* issued.
C2_TermFailureKeepsTenant ==
    \A c \in Calls :
        Done(c) /\ ~inv[c].checkFailed /\ inv[c].failedStep = 4
        => /\ inv[c].status = 201
           /\ TenantRemains(c)
           /\ IdentityRemains(c)
           /\ ProfileRemains(c)
           /\ inv[c].log = <<>>

\* The request passed input validation.
ValidRequest(c) == inv[c].pc \notin {"idle", "validate"} /\ inv[c].status # 400

\* No awaited call of this invocation was made to fail: whatever went wrong in
\* it, if anything, is the identity provider refusing a taken e-mail.
Unfaulted(c) ==
    /\ ~inv[c].checkFailed
    /\ inv[c].failedStep = 0 \/ inv[c].failedHow = "taken"
    /\ \A i \in 1..Len(inv[c].log) : inv[c].log[i][2] = "ok"

SameSchoolName(c, d) == Ilike(Trim(inv[c].req.schoolName), Trim(inv[d].req.schoolName))
SameEmail(c, d) == ToLower(inv[c].req.email) = ToLower(inv[d].req.email)

OneSuccessOneConflict(c, d) ==
    \/ inv[c].status = 201 /\ inv[d].status = 409
    \/ inv[c].status = 409 /\ inv[d].status = 201

\* C3: two calls with the same school name up to letter case and different
\* e-mails end with one 201 and one 409, and one school of that name exists.
C3_SameNameOneSuccessOneConflict ==
    \A c, d \in Calls :
        /\ c # d /\ Done(c) /\ Done(d)
        /\ ValidRequest(c) /\ ValidRequest(d)
        /\ Unfaulted(c) /\ Unfaulted(d)
        /\ SameSchoolName(c, d) /\ ~SameEmail(c, d)
        => /\ OneSuccessOneConflict(c, d)
           /\ Cardinality({s \in schools : Ilike(s.name, Trim(inv[c].req.schoolName))}) = 1

\* C4: two calls with the same e-mail up to letter case and different school
\* names end with one 201 and one 409, and the call that did not succeed
\* leaves no school behind.
C4_SameEmailOneSuccessOneConflict ==
    \A c, d \in Calls :
        /\ c # d /\ Done(c) /\ Done(d)
        /\ ValidRequest(c) /\ ValidRequest(d)
        /\ Unfaulted(c) /\ Unfaulted(d)
        /\ SameEmail(c, d) /\ ~SameSchoolName(c, d)
        => /\ OneSuccessOneConflict(c, d)
           /\ \A x \in {c, d} : inv[x].status # 201 => ~TenantRemains(x)

\* ================================================================
\* Properties of the Session/Tenant Binder
\* ================================================================

NothingBound == user = {} /\ school = {} /\ role = "" /\ tenantId = 0
AllBound == user # {} /\ school # {} /\ role # "" /\ tenantId # 0

\* Operation o returns in this step.
Returns(o) == op[o].pc # "returned" /\ op'[o].pc = "returned"

\* C5: when an operation returns because its fetchUserData found no active
\* profile or no active school, user, school, role and tenantId are all empty.
C5_FailedBindShowsNothing ==
    [][\A o \in Ops :
         Returns(o) /\ op[o].pc \in {"fetchProfile", "fetchSchool"}
                    /\ op'[o].bind \in {"profile", "school"}
         => NothingBound']_vars

\* The identity has no profile row, or none with is_active = true.
NoValidProfile(uid) == ~\E p \in profiles : p.id = uid /\ p.is_active

\* A fetchUserData that did not succeed is recorded in the operation.
BindFailed(rec) == rec.bind \notin {"", "ok"}

\* C6: a fetchUserData whose profile query runs when the identity has no
\* active profile returns false and writes none of user, school, role,
\* tenantId; and the four fields are at all times all set or all empty.
C6_InvalidProfileBindsNothing ==
    [][/\ \A o \in Ops :
            op[o].pc = "fetchProfile" /\ op'[o] # op[o] /\ NoValidProfile(op[o].uid)
            => /\ BindFailed(op'[o])
               /\ op'[o].pc \in {"returned", "forceSignOut"}
               /\ UNCHANGED <<user, school, role, tenantId>>
       /\ NothingBound' \/ AllBound']_vars

\* A bind was refused for want of an active profile.
C6_Witness ==
    \E o \in Ops :
        /\ op[o].bind = "profile"
        /\ op[o].pc \in {"returned", "forceSignOut"}
        /\ \E p \in profiles : p.id = op[o].uid /\ ~p.is_active
        /\ NoValidProfile(op[o].uid)

\* The identity has no profile row in tenant nt.
NoProfileIn(uid, nt) == ~\E p \in profiles : p.id = uid /\ p.tenant_id = nt

C8_NoSessionNothingBound == Idle /\ session = {} => NothingBound

\* C9: once no operation is in flight, the bound fields were written by the
\* fetchUserData started last among those that wrote them since they were
\* last cleared.
C9_NewestBindWins == Idle /\ boundTok # 0 => boundTok = newestTok

\* C10: when the onAuthStateChange callback ends after the sign-out it forced
\* on a failed fetchUserData, the provider's session, session and all bound
\* fields are cleared.
C10_FailedBindForcesSignOut ==
    [][\A o \in Ops :
         op[o].pc = "forceSignOut" /\ Returns(o)
         => authSession' = {} /\ session' = {} /\ NothingBound']_vars

\* C11: when signOut returns, session, user, school, role and tenantId are
\* cleared and no error reaches the caller, whatever the revocation call did.
C11_SignOutAlwaysClears ==
    [][\A o \in Ops :
         op[o].kind = "signOut" /\ Returns(o)
         => op'[o].error = "" /\ session' = {} /\ NothingBound']_vars

\* C12: a signOut that is called and returns while session, user, school, role
\* and tenantId are empty hands no error to its caller and leaves them empty,
\* so a second signOut after a first changes nothing.
C12_SignOutIdempotent ==
    [][\A o \in Ops :
         /\ op[o].kind = "signOut" /\ Returns(o) /\ session = {} /\ NothingBound
            => op'[o].error = "" /\ session' = {} /\ NothingBound'
         /\ op[o].kind = "none" /\ op'[o].kind = "signOut"
            => UNCHANGED <<session, user, school, role, tenantId>>]_vars

\* Two signOut calls have returned, the second with a failing revocation, and
\* nothing is bound.
C12_Witness ==
    /\ \A o \in Ops : op[o].kind = "signOut" /\ op[o].pc = "returned" /\ op[o].error = ""
    /\ \E o \in Ops : op[o].how # "ok"
    /\ session = {} /\ NothingBound

\* C13: the write of updateProfile is aimed at the row with id = user.id and
\* tenant_id = tenantId as bound at the call; it leaves every other profile
\* row as it was and leaves that row's id, tenant_id and created_at as they
\* were, whatever keys the caller passed.
C13_UpdateProfileFrame ==
    [][\A o \in Ops :
         /\ op[o].kind = "none" /\ op'[o].kind = "update" /\ op'[o].pc = "updateCall"
            => /\ \E u \in user : op'[o].uid = u.id
               /\ op'[o].tid = tenantId
               /\ UNCHANGED profiles
         /\ op[o].kind = "update" /\ op[o].pc = "updateCall" /\ op'[o] # op[o]
            => /\ Cardinality(profiles') = Cardinality(profiles)
               /\ \A p \in profiles :
                    \/ p \in profiles'
                    \/ /\ p.id = op[o].uid /\ p.tenant_id = op[o].tid
                       /\ \E q \in profiles' \ profiles :
                            /\ q.id = p.id
                            /\ q.tenant_id = p.tenant_id
                            /\ q.created_at = p.created_at]_vars

\* An update whose caller also passed id, tenant_id and created_at was applied.
C13_Witness ==
    \E o \in Ops :
        /\ op[o].kind = "update" /\ op[o].pc = "fetchProfile"
        /\ DOMAIN UpdateInputs[op[o].arg] = {"first_name", "id", "tenant_id", "created_at"}
        /\ \E p \in profiles :
             /\ p.id = op[o].uid /\ p.tenant_id = op[o].tid
             /\ p.first_name = "X" /\ p.created_at = 0
        /\ OtherProfile \in profiles

\* C14: when updateProfile with first_name = "X" returns success after its
\* refresh ran, no other client having touched the store, the bound user
\* shows first_name = "X".
C14_UpdateRoundTrip ==
    [][\A o \in Ops :
         /\ op[o].kind = "update" /\ Returns(o)
         /\ op[o].pc \in {"fetchProfile", "fetchSchool", "lastLogin"}
         /\ op'[o].error = "" /\ storeChanges = 0
         => \E u \in user' : u.first_name = "X"]_vars

\* C15: when signIn returns "Failed to load user data" because the profile or
\* the school query of its fetchUserData failed, none of user, school, role,
\* tenantId is set.
C15_SignInBindFailureUnbound ==
    [][\A o \in Ops :
         /\ op[o].kind = "signIn" /\ Returns(o)
         /\ op[o].pc \in {"fetchProfile", "fetchSchool"}
         /\ op'[o].error = "Failed to load user data"
         => NothingBound']_vars

\* C20: whatever becomes of the last_login write of a fetchUserData that bound
\* the four fields for signIn or switchTenant, that fetchUserData returns true, its caller reports no
\* error, and the four fields stay as bound.
C20_LastLoginFailureIgnored ==
    [][\A o \in Ops :
         /\ op[o].kind \in {"signIn", "switch"}
         /\ op[o].pc = "lastLogin" /\ op'[o] # op[o]
         => /\ op'[o].bind = "ok"
            /\ op'[o].error = ""
            /\ UNCHANGED <<user, school, role, tenantId>>]_vars

\* ================================================================
\* More properties of the Tenant Provisioner
\* ================================================================

\* Requests with a field missing, a malformed e-mail or a short password.
MalformedRequests ==
    { Req(<<>>, Pw(8), NameLi),
      Req(EmailA, <<>>, NameLi),
      Req(EmailA, Pw(8), <<>>),
      Req(EmailBad, Pw(8), NameLi),
      Req(EmailA, Pw(7), NameLi) }

\* C16: a call with a malformed request answers 400 at its first step after
\* the request arrived, having created no school or identity and issued no
\* delete, and no step of it changes schools, identities, profiles or terms.
C16_InvalidRequestWritesNothing ==
    [][\A c \in Calls :
         /\ inv[c].pc = "idle" /\ inv'[c] # inv[c]
            => UNCHANGED <<schools, users, profiles, terms>>
         /\ inv[c].req \in MalformedRequests /\ inv[c].pc # "idle" /\ inv'[c] # inv[c]
            => /\ inv'[c].pc = "done" /\ inv'[c].status = 400
               /\ inv'[c].tenantId = 0 /\ inv'[c].userId = 0 /\ inv'[c].log = <<>>
               /\ UNCHANGED <<schools, users, profiles, terms>>]_vars

\* A short password was answered with 400 while another call's tenant exists.
C16_Witness ==
    \E c, d \in Calls :
        /\ Done(c) /\ inv[c].status = 400 /\ inv[c].req = Req(EmailA, Pw(7), NameLi)
        /\ inv[c].error = "Password must be at least 8 characters long"
        /\ Done(d) /\ inv[d].status = 201 /\ TenantRemains(d) /\ IdentityRemains(d)

EmailConflict == "Email address is already registered"
SchoolConflict == "A school with this name already exists"

\* The call created nothing and issued no delete.
CreatedNothing(c) == inv[c].tenantId = 0 /\ inv[c].userId = 0 /\ inv[c].log = <<>>

TermRemains(c) == inv[c].tenantId # 0 /\ \E t \in terms : t.tenant_id = inv[c].tenantId

\* C18: a call that returned either answered 201 and its school, identity and
\* profile exist, or answered 400, 409 or 500 and no school, identity, profile
\* or term of it exists.
C18_AllOrNothing ==
    \A c \in Calls :
        Done(c) /\ ~inv[c].checkFailed
        => \/ /\ inv[c].status = 201
              /\ TenantRemains(c) /\ IdentityRemains(c) /\ ProfileRemains(c)
           \/ /\ inv[c].status \in {400, 409, 500}
              /\ ~TenantRemains(c) /\ ~IdentityRemains(c)
              /\ ~(inv[c].userId # 0 /\ ProfileRemains(c)) /\ ~TermRemains(c)

\* The error texts the handler writes itself.
GenericMessages ==
    { "Email, password, and school name are required",
      "Invalid email format",
      "Password must be at least 8 characters long",
      EmailConflict,
      SchoolConflict,
      "Failed to create school",
      "Failed to create admin user",
      "Failed to create admin profile",
      "Internal server error" }

\* C19: the error text of a call that failed in steps 1-4 is one of the
\* handler's own messages.
C19_GenericFailureText ==
    \A c \in Calls :
        Done(c) /\ ~inv[c].checkFailed /\ inv[c].failedStep # 0 /\ inv[c].status # 201
        => inv[c].error \in GenericMessages

\* ================================================================
\* More properties of the Session/Tenant Binder
\* ================================================================

\* C21: once every call of every operation has settled and no operation is in
\* flight, isLoading is false.
C21_NotStuckLoading == Idle => ~isLoading

\* C22: when the onAuthStateChange callback ends after a fetchUserData that
\* loaded and bound a profile whose tenant_id differs from the tenant_id claim
\* of the session, the session is gone and nothing is bound.
C22_ClaimMismatchSignsOut ==
    [][\A o \in Ops :
         /\ op[o].kind = "authChange" /\ op[o].claim /\ Returns(o)
         /\ op[o].prof # {} /\ op'[o].bind = "ok"
         /\ \E x \in session : x.tenant_id \notin {0, BoundTenantId(op[o].prof)}
         => session' = {} /\ NothingBound']_vars

\* ================================================================
\* More properties of the Tenant Provisioner
\* ================================================================

\* The stored e-mail / school name equals the requested one ignoring case.
EmailHeld(c) == \E u \in users : ToLower(u.email) = ToLower(inv[c].req.email)
NameHeld(c) == \E s \in schools : ToLower(s.name) = ToLower(Trim(inv[c].req.schoolName))

\* C23: when listUsers answers an invocation while the provider holds an
\* identity whose e-mail equals the requested one ignoring case, the
\* invocation returns 409 "Email address is already registered" having
\* created nothing, whatever the number of identities held.
C23_HeldEmailRefused ==
    [][\A c \in Calls :
         /\ inv[c].pc = "listUsers" /\ inv'[c].pc # "listUsers"
         /\ ~inv'[c].checkFailed
         /\ EmailHeld(c)
         => /\ Done(c)' /\ inv'[c].status = 409 /\ inv'[c].error = EmailConflict
            /\ CreatedNothing(c)']_vars

\* C24: when the school look-up answers an invocation while one or more
\* schools have a name equal to the trimmed requested name ignoring case, the
\* invocation returns 409 "A school with this name already exists" having
\* created nothing.
C24_HeldNameRefused ==
    [][\A c \in Calls :
         /\ inv[c].pc = "checkSchool" /\ inv'[c].pc # "checkSchool"
         /\ ~inv'[c].checkFailed
         /\ NameHeld(c)
         => /\ Done(c)' /\ inv'[c].status = 409 /\ inv'[c].error = SchoolConflict
            /\ CreatedNothing(c)']_vars

\* What the i-th compensating delete of invocation c aimed at.
Deleted(c, i) == inv[c].log[i][1]

C27_DeletesOnlyOwnOnFailure ==
    [][/\ \A s \in schools \ schools' :
            \E c \in Calls : /\ inv[c].tenantId = s.id /\ inv'[c] # inv[c]
                             /\ inv'[c].status # 201
       /\ \A u \in users \ users' :
            \E c \in Calls : /\ inv[c].userId = u.id /\ inv'[c] # inv[c]
                             /\ inv'[c].status # 201
       /\ \A c \in Calls :
            /\ Done(c)' /\ inv'[c].status = 201
                 => TenantRemains(c)' /\ IdentityRemains(c)' /\ inv'[c].log = <<>>
            /\ Done(c)' /\ inv'[c].log # <<>> => inv'[c].status = 500]_vars

\* One invocation answered 201 and keeps its school and identity while the
\* other one failed and deleted its own.
C27_Witness ==
    \E c, d \in Calls :
        /\ Done(c) /\ inv[c].status = 201 /\ TenantRemains(c) /\ IdentityRemains(c)
        /\ Done(d) /\ inv[d].status = 500 /\ inv[d].userId # 0
        /\ ~TenantRemains(d) /\ ~IdentityRemains(d)

\* C28: an invocation killed after its identity was created and before the
\* profile insert leaves its school and its identity in the store with no
\* profile, and no later step of any invocation removes them.
C28_KilledAfterStep2LeavesOrphans ==
    \A c \in Calls :
        inv[c].pc = "killed" /\ inv[c].killedAt = "step3"
        => TenantRemains(c) /\ IdentityRemains(c) /\ ~ProfileRemains(c)

\* An invocation was killed before its profile insert and another invocation
\* has since failed and deleted what it had created.
C28_Witness ==
    \E c, d \in Calls :
        /\ inv[c].pc = "killed" /\ inv[c].killedAt = "step3"
        /\ inv[d].tenantId > inv[c].tenantId /\ inv[d].userId > inv[c].userId
        /\ Done(d) /\ inv[d].status = 500
        /\ ~TenantRemains(d) /\ ~IdentityRemains(d)

\* C29: for an invocation that answered 201 with {tenantId, userId}, the store
\* holds the school with that id, named as requested and with
\* subscription_status active; the identity with that id, the requested
\* e-mail and claims tenant_id = tenantId, role admin; and the profile with
\* id = userId, tenant_id = tenantId, role admin, is_active true.
C29_SuccessPostcondition ==
    \A c \in Calls :
        Done(c) /\ inv[c].status = 201 =>
            /\ inv[c].tenantId # 0 /\ inv[c].userId # 0
            /\ \A d \in Calls \ {c} :
                   inv[d].tenantId # inv[c].tenantId /\ inv[d].userId # inv[c].userId
            /\ \E s \in schools :
                   /\ s.id = inv[c].tenantId
                   /\ s.subscription_status = "active"
                   /\ s.name = Trim(inv[c].req.schoolName)
            /\ \E u \in users :
                   /\ u.id = inv[c].userId
                   /\ u.tenant_id = inv[c].tenantId /\ u.role = "admin"
                   /\ u.email = ToLower(inv[c].req.email)
            /\ \E p \in profiles :
                   /\ p.id = inv[c].userId /\ p.tenant_id = inv[c].tenantId
                   /\ p.role = "admin" /\ p.is_active

\* Both invocations answered 201, each with its own school, identity, profile
\* and term.
C29_Witness ==
    \A c \in Calls : Done(c) /\ inv[c].status = 201 /\ TermRemains(c)

\* ================================================================
\* Switching tenant
\* ================================================================

\* C30: when switchTenant(newTenantId) returns success with the session still
\* live, the identity's claims
\* carry tenant_id = newTenantId with a role, and user, school, role and
\* tenantId are set with tenantId = newTenantId and role = that role.
C30_SwitchSuccessBindsNewTenant ==
    [][\A o \in Ops :
         /\ op[o].kind = "switch" /\ Returns(o) /\ op'[o].error = ""
         /\ session' # {} /\ authSession' # {}
         => /\ \E u \in users' : /\ u.id = op[o].uid
                                 /\ u.tenant_id = op[o].arg
                                 /\ u.role = role'
            /\ AllBound'
            /\ tenantId' = op[o].arg]_vars

\* ================================================================
\* useTenantQuery under the AuthProvider
\* ================================================================

\* The AuthProvider's tenantId and isLoading change (any of its operations
\* called setTenantId or setIsLoading); the hook has not rendered again yet.
AuthContextChanges ==
    /\ \E t \in {0} \cup Tenants, l \in BOOLEAN :
         /\ <<t, l>> # <<tenantId, isLoading>>
         /\ tenantId' = t
         /\ isLoading' = l
    /\ UNCHANGED <<schools, users, profiles, provVars, recs, roleRows, authSession, session, user,
                   school, role, op, ghostVars, hook>>

\* The component renders again: useAuth() and the filters argument give new
\* dependencies, useCallback makes a new fetchData closing over them, and the
\* effect (lines 94-96) calls it.
RenderHook ==
    /\ \E f \in Filters :
         LET h == [hook EXCEPT !.tenantId = tenantId, !.authLoading = isLoading,
                               !.filters = f]
         IN /\ <<h.tenantId, h.authLoading, h.filters>> #
                 <<hook.tenantId, hook.authLoading, hook.filters>>
            /\ FetchGuard(h) \/ hook.issued < MaxQueries
            /\ hook' = FetchData(h)
    /\ UNCHANGED <<schools, users, profiles, provVars, recs, roleRows, authSession, clientVars, op,
                   ghostVars>>

\* A holder of the returned refetch (line 98) calls it: it is the fetchData of
\* the latest render, with what that render captured.
Refetch ==
    /\ FetchGuard(hook) \/ hook.issued < MaxQueries
    /\ hook' = FetchData(hook)
    /\ UNCHANGED <<schools, users, profiles, provVars, recs, roleRows, authSession, clientVars, op,
                   ghostVars>>

\* A query is answered (lines 76-91): rows, {error}, or a rejection.
QueryResponse ==
    /\ \E q \in hook.inFlight, out \in Outcomes :
         hook' = [hook EXCEPT !.inFlight = @ \ {q},
                              !.data = IF out = "ok" THEN q ELSE @,
                              !.error = IF out = "ok" THEN @ ELSE TRUE,
                              !.loading = FALSE]
    /\ UNCHANGED <<schools, users, profiles, provVars, recs, roleRows, authSession, clientVars, op,
                   ghostVars>>

NextQuery ==
    \/ AuthContextChanges
    \/ RenderHook
    \/ Refetch
    \/ QueryResponse

SpecQuery == InitProv /\ [][NextQuery]_vars

\* C25: a step in which useTenantQuery sends a query is taken while the
\* AuthProvider is not loading and has a tenantId, and the query carries the
\* equality filter tenant_id = that tenantId.
C25_QueriesScopedToBoundTenant ==
    [][hook'.issued # hook.issued
         => /\ ~isLoading
            /\ tenantId # 0
            /\ <<"tenant_id", tenantId>> \in hook'.last]_vars

\* ================================================================
\* Operations that require a bound tenant
\* ================================================================

\* C31: no step of a switchTenant that was called with a session but with no
\* tenant bound changes the identity's claims or any of session, user, school,
\* role, tenantId, isLoading; and such a call returns an error.
C31_SwitchUnboundChangesNothing ==
    [][\A o \in Ops :
         op[o].kind = "switch" /\ op[o].tid = 0 /\ op'[o] # op[o]
         => /\ users' = users
            /\ UNCHANGED clientVars
            /\ Returns(o) => op'[o].error # ""]_vars

\* C32: an updateProfile called with no user or no tenantId returns an error
\* at once and writes no profile row; an updateProfile whose update returned
\* an error or rejected returns an error, and that step changes no profile row
\* and none of user, school, role, tenantId.
C32_UpdateProfileFailures ==
    [][\A o \in Ops :
         /\ op[o].kind = "none" /\ op'[o].kind = "update" /\ (user = {} \/ tenantId = 0)
              => /\ op'[o].pc = "returned" /\ op'[o].error # ""
                 /\ profiles' = profiles
         /\ op[o].kind = "update" /\ op[o].pc = "updateCall" /\ Returns(o)
              /\ op'[o].how \in {"err", "throw"}
              => /\ op'[o].error # ""
                 /\ profiles' = profiles
                 /\ UNCHANGED boundVars]_vars

\* One updateProfile was refused for lack of a bound user and another, called
\* while bound, came back after its write was rejected.
C32_Witness ==
    \E o, q \in Ops :
        /\ op[o].kind = "update" /\ op[o].pc = "returned" /\ op[o].how = "guard"
        /\ op[q].kind = "update" /\ op[q].pc = "returned"
        /\ op[q].how \in {"err", "throw"} /\ op[q].tid # 0

\* ================================================================
\* What a bind loads
\* ================================================================

\* The school of the profile this fetchUserData loaded exists and is active.
TenantUsable(o) ==
    \E s \in schools : /\ s.id = BoundTenantId(op[o].prof)
                       /\ s.subscription_status = "active"

\* C33: a fetchUserData that writes user, school, role and tenantId writes a
\* profile that was loaded with is_active true and a stored school with
\* id = profile.tenant_id and subscription_status active; one whose school is
\* missing or not active returns false and writes none of the four fields;
\* and a fetchUserData returns true only after such a write.
C33_BindLoadsActiveProfileAndTenant ==
    [][\A o \in Ops :
         /\ op[o].pc = "fetchSchool" /\ op'[o].pc = "lastLogin"
              => /\ \A p \in user' : p.is_active /\ p.id = op[o].uid
                 /\ \A p \in user', s \in school' :
                        /\ s \in schools
                        /\ s.id = p.tenant_id /\ s.subscription_status = "active"
                        /\ tenantId' = s.id /\ role' = p.role
                 /\ AllBound'
         /\ op[o].pc = "fetchSchool" /\ op'[o] # op[o] /\ ~TenantUsable(o)
              => /\ BindFailed(op'[o])
                 /\ UNCHANGED boundVars
         /\ Returns(o) /\ op'[o].bind = "ok" => op[o].pc = "lastLogin"]_vars

\* A fetchUserData returned false at its school query because the school of
\* the loaded profile is suspended.
C33_Witness ==
    \E o \in Ops :
        /\ op[o].bind = "school" /\ op[o].prof # {}
        /\ \E s \in schools : /\ s.id = BoundTenantId(op[o].prof)
                              /\ s.subscription_status # "active"

\* C34: in every reachable state user, school, role and tenantId are all empty,
\* or all set with tenantId = user.tenant_id = school.id and role = user.role.
C34_BoundFieldsFromOneBind ==
    \/ NothingBound
    \/ /\ AllBound
       /\ Cardinality(user) = 1 /\ Cardinality(school) = 1
       /\ \A p \in user, s \in school :
            /\ tenantId = p.tenant_id
            /\ tenantId = s.id
            /\ role = p.role

\* A second fetchUserData has written the fields over those of the first, for
\* another tenant.
C34_Witness == AllBound /\ boundTok = 2 /\ tenantId = 2

\* ================================================================
\* signUp (client path)
\* ================================================================

\* schoolId of the default test school used for teacher and parent sign-up.
DefaultSchoolId == 1

\* The arguments signUp may be called with: e-mail, role, and whether
\* schoolData is supplied.
SignUpInputs ==
    << [email |-> EmailD, role |-> "admin", schoolData |-> TRUE],
       [email |-> EmailD, role |-> "teacher", schoolData |-> FALSE],
       [email |-> EmailAUpper, role |-> "parent", schoolData |-> FALSE],
       [email |-> EmailX, role |-> "admin", schoolData |-> FALSE] >>

SignUpInput(rec) == SignUpInputs[rec.arg]

\* After start with no persisted session: nothing bound, nothing loading, the
\* store as on process start, and no operation in flight.
InitSignUp ==
    /\ schools = { [id |-> 1, name |-> NameLi, subscription_status |-> "active"],
                   [id |-> 2, name |-> NameOk, subscription_status |-> "active"] }
    /\ users = { [id |-> Uid, email |-> EmailA, tenant_id |-> 1, role |-> "teacher"],
                 [id |-> Uid + 1, email |-> EmailY, tenant_id |-> 1, role |-> "teacher"] }
    /\ profiles = { [OtherProfile EXCEPT !.email = EmailY] }
    /\ terms = {}
    /\ nextSchoolId = 3
    /\ nextUserId = 3
    /\ inv = [c \in Calls |-> IdleInv]
    /\ authSession = {}
    /\ session = {}
    /\ user = {}
    /\ school = {}
    /\ role = ""
    /\ tenantId = 0
    /\ isLoading = FALSE
    /\ op = [o \in Ops |-> NoOp]
    /\ bindSeq = 0
    /\ boundTok = 0
    /\ newestTok = 0
    /\ storeChanges = 0
    /\ recs = NoRecords
    /\ roleRows = {}
    /\ hook = HookAtMount

\* signUp is called (lines 268-301): setIsLoading(true); with schoolData and
\* role admin the school insert is issued, else schoolId is the default
\* school's and auth.signUp is issued. tid is schoolId, uid the new identity's
\* id, suid the id of authData.session's user (0 without a session).
CallSignUp(o) ==
    /\ FreeSlot(o)
    /\ \E i \in 1..Len(SignUpInputs) :
         LET in == SignUpInputs[i] IN
         op' = [op EXCEPT ![o] =
                   IF in.schoolData /\ in.role = "admin"
                   THEN [NoOp EXCEPT !.kind = "signUp", !.pc = "suSchool", !.arg = i]
                   ELSE [NoOp EXCEPT !.kind = "signUp", !.pc = "suAuth", !.arg = i,
                                     !.tid = DefaultSchoolId]]
    /\ isLoading' = TRUE
    /\ UNCHANGED <<schools, users, profiles, provVars, recs, roleRows, hook, authSession, session,
                   boundVars, ghostVars>>

\* A variant of a failing return that first deletes the school just created.
SchoolsAfterFailureCompensated(tid) == DeleteSchool(tid)

\* Table schools when signUp returns a failure (lines 292, 314, 318, 335,
\* 381-383): the handler issues no delete.
SchoolsAfterFailure(tid) == schools

\* signUp returns a failure after its school insert may have succeeded.
\* The finally block (line 385) clears isLoading.
SignUpFails(o, msg, out) ==
    /\ op' = [op EXCEPT ![o] = Returned(@, msg, out)]
    /\ schools' = SchoolsAfterFailure(op[o].tid)
    /\ isLoading' = FALSE

\* The school insert resolves (lines 275-296).
SignUpSchool(o) ==
    /\ op[o].kind = "signUp" /\ op[o].pc = "suSchool"
    /\ \E out \in Outcomes :
         CASE out = "ok" ->
                /\ schools' = schools \cup
                     {[id |-> nextSchoolId, name |-> NameOk, subscription_status |-> "active"]}
                /\ nextSchoolId' = nextSchoolId + 1
                /\ op' = [op EXCEPT ![o].pc = "suAuth", ![o].tid = nextSchoolId]
                /\ UNCHANGED isLoading
           [] out = "err" ->
                /\ SignUpFails(o, "Failed to create school", out)
                /\ UNCHANGED nextSchoolId
           [] out = "throw" ->
                /\ SignUpFails(o, "An unexpected error occurred", out)
                /\ UNCHANGED nextSchoolId
    /\ UNCHANGED <<users, profiles, terms, nextUserId, inv, recs, roleRows, hook,
                   authSession, session, boundVars, ghostVars>>

\* auth.signUp resolves (lines 303-319). The provider refuses a taken e-mail;
\* whether the answer carries a session is the provider's configuration.
SignUpAuth(o) ==
    /\ op[o].kind = "signUp" /\ op[o].pc = "suAuth"
    /\ \E out \in Outcomes :
         CASE out = "ok" /\ ~EmailTaken(SignUpInput(op[o]).email) ->
                LET u == [ id |-> nextUserId, email |-> ToLower(SignUpInput(op[o]).email),
                           tenant_id |-> op[o].tid, role |-> SignUpInput(op[o]).role ]
                IN /\ users' = users \cup {u}
                   /\ nextUserId' = nextUserId + 1
                   /\ \E withSession \in BOOLEAN :
                        /\ authSession' = IF withSession THEN {SessionOf(u)} ELSE authSession
                        /\ op' = [op EXCEPT ![o].pc = "suProfile", ![o].uid = u.id,
                                            ![o].suid = IF withSession THEN u.id ELSE 0]
                   /\ UNCHANGED <<schools, isLoading>>
           [] out = "err" \/ (out = "ok" /\ EmailTaken(SignUpInput(op[o]).email)) ->
                /\ SignUpFails(o, Cause, IF out = "ok" THEN "taken" ELSE out)
                /\ UNCHANGED <<users, nextUserId, authSession>>
           [] out = "throw" ->
                /\ SignUpFails(o, "An unexpected error occurred", out)
                /\ UNCHANGED <<users, nextUserId, authSession>>
    /\ UNCHANGED <<profiles, terms, nextSchoolId, inv, recs, roleRows, hook, session,
                   boundVars, ghostVars>>

\* The profile row signUp inserts (lines 322-328).
SignUpProfileRow(rec) ==
    [ id |-> rec.uid, tenant_id |-> rec.tid, email |-> ToLower(SignUpInput(rec).email),
      role |-> SignUpInput(rec).role, first_name |-> "", is_active |-> TRUE,
      last_login |-> 0, created_at |-> 0 ]

\* Lines 372-378: with a session setSession and fetchUserData, then, or at
\* once without one, return success.
SignUpFinish(o, out) ==
    IF op[o].suid # 0
    THEN /\ session' = authSession
         /\ op' = [op EXCEPT ![o] = BindStart(@, op[o].uid)]
         /\ bindSeq' = bindSeq + 1
         /\ isLoading' = TRUE
    ELSE /\ op' = [op EXCEPT ![o] = Returned(@, "", out)]
         /\ isLoading' = FALSE
         /\ UNCHANGED <<session, bindSeq>>

\* The profile insert resolves (lines 330-338).
SignUpProfile(o) ==
    /\ op[o].kind = "signUp" /\ op[o].pc = "suProfile"
    /\ \E out \in Outcomes :
         CASE out = "ok" ->
                /\ profiles' = profiles \cup {SignUpProfileRow(op[o])}
                /\ IF SignUpInput(op[o]).role \in {"teacher", "parent"}
                   THEN /\ op' = [op EXCEPT ![o].pc = "suRole"]
                        /\ UNCHANGED <<session, bindSeq, isLoading>>
                   ELSE SignUpFinish(o, out)
                /\ UNCHANGED schools
           [] out = "err" ->
                /\ SignUpFails(o, "Failed to create user profile", out)
                /\ UNCHANGED <<profiles, session, bindSeq>>
           [] out = "throw" ->
                /\ SignUpFails(o, "An unexpected error occurred", out)
                /\ UNCHANGED <<profiles, session, bindSeq>>
    /\ UNCHANGED <<users, provVars, recs, roleRows, hook, authSession, boundVars,
                   boundTok, newestTok, storeChanges>>

\* What signUp does when the teachers / parents insert rejects: the await is
\* inside the try block, so the catch (lines 381-383) answers.
SignUpRoleThrow(o, out) ==
    /\ SignUpFails(o, "An unexpected error occurred", out)
    /\ UNCHANGED <<session, bindSeq>>

\* The teachers or parents insert resolves (lines 341-370): a returned error
\* is only logged.
SignUpRole(o) ==
    /\ op[o].kind = "signUp" /\ op[o].pc = "suRole"
    /\ \E out \in Outcomes :
         CASE out = "ok" ->
                /\ roleRows' = roleRows \cup
                     {[ table |-> IF SignUpInput(op[o]).role = "teacher"
                                  THEN "teachers" ELSE "parents",
                        tenant_id |-> op[o].tid, profile_id |-> op[o].uid ]}
                /\ SignUpFinish(o, out)
                /\ UNCHANGED schools
           [] out = "err" ->
                /\ SignUpFinish(o, out)
                /\ UNCHANGED <<roleRows, schools>>
           [] out = "throw" ->
                /\ SignUpRoleThrow(o, out)
                /\ UNCHANGED roleRows
    /\ UNCHANGED <<users, profiles, provVars, recs, hook, authSession, boundVars,
                   boundTok, newestTok, storeChanges>>

NextSignUp ==
    \E o \in Ops :
        \/ CallSignUp(o)
        \/ SignUpSchool(o)
        \/ SignUpAuth(o)
        \/ SignUpProfile(o)
        \/ SignUpRole(o)
        \/ FetchProfile(o)
        \/ FetchSchool(o)
        \/ LastLogin(o)

SpecSignUp == InitSignUp /\ [][NextSignUp]_vars

\* Operation o is a signUp in flight or returned.
IsSignUp(o) == op[o].kind = "signUp"

\* C35: when the teachers or parents insert of a signUp did not insert its
\* row, that step removes and changes nothing in schools, identities and
\* profiles, and signUp goes on to report success: it returns without error at
\* once or after its fetchUserData.
C35_RoleRowFailureStillSuccess ==
    [][\A o \in Ops :
         /\ IsSignUp(o) /\ op[o].pc = "suRole" /\ op'[o] # op[o] /\ roleRows' = roleRows
              => /\ schools' = schools /\ users' = users /\ profiles' = profiles
                 /\ op'[o].pc \in {"returned", "fetchProfile"}
                 /\ op'[o].error = ""
         /\ IsSignUp(o) /\ Returns(o)
              /\ op[o].pc \in {"fetchProfile", "fetchSchool", "lastLogin"}
              => op'[o].error = ""]_vars

\* Operation o is a signUp for role admin that inserted its own school.
AdminSignUpWithSchool(o) ==
    /\ IsSignUp(o) /\ op[o].tid # 0
    /\ SignUpInput(op[o]).role = "admin" /\ SignUpInput(op[o]).schoolData

\* C36: when, in a signUp for role admin that inserted its school, auth.signUp
\* or the profile insert fails, signUp returns an error and that step removes
\* nothing: the school, and the identity if it was created, stay in the store;
\* and no step of any signUp removes a school, an identity or a profile.
C36_AdminSignUpNoCompensation ==
    [][/\ \A o \in Ops :
            /\ AdminSignUpWithSchool(o) /\ op[o].pc \in {"suAuth", "suProfile"}
            /\ Returns(o) /\ op'[o].how # "ok"
            => /\ op'[o].error # ""
               /\ schools' = schools /\ users' = users /\ profiles' = profiles
               /\ \E s \in schools' : s.id = op[o].tid
               /\ op[o].pc = "suProfile" => \E u \in users' : u.id = op[o].uid
       /\ schools \subseteq schools'
       /\ users \subseteq users'
       /\ \A p \in profiles :
            \E q \in profiles' : q.id = p.id /\ q.tenant_id = p.tenant_id]_vars

\* An admin signUp returned a failure after its profile insert failed, and its
\* school and identity are in the store without a profile.
C36_Witness ==
    \E o \in Ops :
        /\ AdminSignUpWithSchool(o) /\ op[o].pc = "returned" /\ op[o].error # ""
        /\ op[o].uid # 0
        /\ \E s \in schools : s.id = op[o].tid
        /\ \E u \in users : u.id = op[o].uid
        /\ ~\E p \in profiles : p.id = op[o].uid

\* ================================================================
\* Start
\* ================================================================

\* C37: when the getSession() of process start settles with no session
\* persisted, isLoading becomes false, session, user, school, role and
\* tenantId are empty and no fetchUserData is started; when it restores a
\* persisted session, isLoading is true and fetchUserData runs for that
\* session's user id.
C37_StartRestoresSession ==
    [][\A o \in Ops :
         op[o].kind = "start" /\ op[o].pc = "getSession" /\ op'[o] # op[o]
         => /\ authSession = {}
                 => /\ ~isLoading' /\ session' = {} /\ NothingBound'
                    /\ op'[o].pc = "returned" /\ bindSeq' = bindSeq
            /\ authSession # {} /\ session' # {}
                 => /\ isLoading' /\ session' = authSession
                    /\ op'[o].pc = "fetchProfile"
                    /\ op'[o].uid = SessionUid(authSession)
                    /\ bindSeq' = bindSeq + 1]_vars

\* ================================================================
\* createRecord, updateRecord, deleteRecord
\* ================================================================

\* The data argument of createRecord and updateRecord: arbitrary columns,
\* tenant_id among them or not.
RecordData ==
    { [val |-> 1],
      [val |-> 2, tenant_id |-> 1],
      [val |-> 2, tenant_id |-> 2] }

\* { ...data, tenant_id: tenantId } (lines 601-605): the row inserted.
InsertedRow(id, data, tid) == [ id |-> id, val |-> data.val, tenant_id |-> tid ]

\* .update({ ...data, updated_at }) (lines 626-629): every column of data is
\* written to the matching row.
UpdatedRow(row, data) ==
    [k \in DOMAIN row |-> IF k \in DOMAIN data THEN data[k] ELSE row[k]]

\* .eq('id', id).eq('tenant_id', tenantId) (lines 630-631, 652-653)
RowsMatching(id, tid) == {r \in recs.rows : r.id = id /\ r.tenant_id = tid}

RecordIds == 1..MaxRecords

\* createRecord(table, data, tenantId) (lines 593-614)
CreateRecord ==
    /\ recs.nextId <= MaxRecords
    /\ \E data \in RecordData, tid \in Tenants, out \in Outcomes :
         recs' = IF out = "ok"
                 THEN [ rows |-> recs.rows \cup {InsertedRow(recs.nextId, data, tid)},
                        nextId |-> recs.nextId + 1,
                        last |-> [fn |-> "createRecord", tenantId |-> tid] ]
                 ELSE [recs EXCEPT !.last = [fn |-> "createRecord", tenantId |-> tid]]
    /\ UNCHANGED <<schools, users, profiles, provVars, roleRows, hook, authSession,
                   clientVars, op, ghostVars>>

\* updateRecord(table, id, data, tenantId) (lines 616-639)
UpdateRecord ==
    /\ \E id \in RecordIds, data \in RecordData, tid \in Tenants, out \in Outcomes :
         recs' = IF out = "ok"
                 THEN [recs EXCEPT
                         !.rows = (recs.rows \ RowsMatching(id, tid)) \cup
                                  {UpdatedRow(r, data) : r \in RowsMatching(id, tid)},
                         !.last = [fn |-> "updateRecord", tenantId |-> tid]]
                 ELSE [recs EXCEPT !.last = [fn |-> "updateRecord", tenantId |-> tid]]
    /\ UNCHANGED <<schools, users, profiles, provVars, roleRows, hook, authSession,
                   clientVars, op, ghostVars>>

\* deleteRecord(table, id, tenantId) (lines 641-658)
DeleteRecord ==
    /\ \E id \in RecordIds, tid \in Tenants, out \in Outcomes :
         recs' = IF out = "ok"
                 THEN [recs EXCEPT !.rows = recs.rows \ RowsMatching(id, tid),
                                   !.last = [fn |-> "deleteRecord", tenantId |-> tid]]
                 ELSE [recs EXCEPT !.last = [fn |-> "deleteRecord", tenantId |-> tid]]
    /\ UNCHANGED <<schools, users, profiles, provVars, roleRows, hook, authSession,
                   clientVars, op, ghostVars>>

NextRecords ==
    \/ CreateRecord
    \/ UpdateRecord
    \/ DeleteRecord

SpecRecords == InitProv /\ [][NextRecords]_vars

\* The rows of tenant u.
RowsOf(rows, u) == {r \in rows : r.tenant_id = u}

\* C38: a createRecord, updateRecord or deleteRecord made with tenantId = T
\* leaves the set of rows of every other tenant as it was.
C38_OtherTenantsUntouched ==
    [][recs' # recs
         => \A u \in Tenants \ {recs'.last.tenantId} :
                RowsOf(recs'.rows, u) = RowsOf(recs.rows, u)]_vars

\* ================================================================
\* Rows held by useTenantQuery
\* ================================================================

\* C39: once the hook has rendered with the AuthProvider's current tenantId
\* and isLoading and is not loading itself, the rows it holds, if any, were
\* fetched with the filter tenant_id = the current tenantId.
C39_HeldRowsOfBoundTenant ==
    /\ hook.tenantId = tenantId /\ hook.authLoading = isLoading
    /\ ~hook.loading
    /\ hook.data # {}
    => <<"tenant_id", tenantId>> \in hook.data

====
